---- MODULE Spec2Model ----
(***************************************************************************)
(* Model of the lead generation API (src/main.py) and of the Google Maps   *)
(* scraper it drives (src/scraper/gmaps_scraper.py).                       *)
(*                                                                         *)
(* The handlers are asyncio coroutines of one event loop: a step of the    *)
(* model is the code one coroutine runs between two suspensions, from the  *)
(* completion of the operation it awaited up to the next await that        *)
(* suspends.  Several requests are in flight at once, one per client slot. *)
(***************************************************************************)
EXTENDS Naturals, Sequences, FiniteSets

(* ------------------------------ bounds -------------------------------- *)

\* The client slots: each serves one request at a time.
Clients == 1..2

\* Concurrent use: result elements one listing shows, /scrape requests
\* of a run.
ApiElements == 1
ApiScrapes == 2
\* Sequential use: result elements one listing shows, /scrape requests
\* of a run.
SeqElements == 11
SeqScrapes == 1
\* Enrichment: result elements one listing shows, /scrape requests of a
\* run.
EnrichElements == 2
EnrichScrapes == 2

(* ------------------------- program constants -------------------------- *)

\* ScrapeRequest.max_results: Field(ge=1, le=200)
MinResults == 1
MaxResultsLimit == 200
\* range(max_results // 10)
ScrollDivisor == 10

\* None, where the other values are numbers: browsers, pages, names, ids.
None == 0

\* Lead(**lead_data): the fields the scraper fills, email left at its default.
Lead(name, phone) == [name |-> name, phone |-> phone, email |-> None]

\* The coroutine frame of a client slot that serves no request.
IdleFrame ==
  [ pc |-> "idle", op |-> "none", max_results |-> 0, target |-> None, i |-> 0,
    business_elements |-> 0, element |-> 0, leads |-> << >>,
    processed_places |-> {}, lead_data |-> None, shown |-> 0,
    result |-> "none", scrape_id |-> None, warning |-> "none" ]

NoResp == [op |-> "none"]

VARIABLES
  env,            \* the bounded environment of a run, fixed in a behaviour
  leads_storage,  \* main.py: leads_storage, scrape_id -> list of leads
  issued,         \* number of uuid4 values generated so far: ids 1..issued
  browser,        \* scraper.browser: None or a browser
  page,           \* scraper.page: None or the page of a browser
  open_browsers,  \* browsers launched and not yet closed
  open_pages,     \* pages created whose browser is not yet closed
  started,        \* number of /scrape requests accepted so far
  call,           \* client slot -> coroutine frame of the request it serves
  resp,           \* the response the last step sent, NoResp when it sent none
  written         \* path of the file the last step wrote, << >> when none

vars == <<env, leads_storage, issued, browser, page, open_browsers, open_pages,
          started, call, resp, written>>

scraper_vars == <<browser, page, open_browsers, open_pages>>
storage_vars == <<leads_storage, issued>>

\* Concurrent use of the API: two clients, short listings, one scroll cycle,
\* no phone numbers on the pages and no emails found by the enricher.
ApiEnv ==
  [ clients |-> Clients, max_results |-> {10}, elements |-> ApiElements,
    scrapes |-> ApiScrapes, phones |-> {}, emails |-> {} ]

\* Sequential use: one client, listings longer than max_results, and
\* max_results with no, one and two scroll cycles.
SeqEnv ==
  [ clients |-> {1}, max_results |-> {1, 9, 10, 11, 20},
    elements |-> SeqElements, scrapes |-> SeqScrapes, phones |-> {}, emails |-> {} ]

\* Enrichment in sequential use: one client, listings of up to two leads,
\* and an enricher that finds an email for a lead or finds none.
EnrichEnv ==
  [ clients |-> {1}, max_results |-> {10}, elements |-> EnrichElements,
    scrapes |-> EnrichScrapes, phones |-> {}, emails |-> {1} ]

InitState ==
  /\ leads_storage = [id \in {} |-> << >>]
  /\ issued = 0
  /\ browser = None
  /\ page = None
  /\ open_browsers = {}
  /\ open_pages = {}
  /\ call = [c \in Clients |-> IdleFrame]
  /\ started = 0
  /\ resp = NoResp
  /\ written = << >>

Init == env = ApiEnv /\ InitState

InitSeq == env = SeqEnv /\ InitState

InitEnrich == env = EnrichEnv /\ InitState

(* ----------------------------- helpers -------------------------------- *)

\* Mutant of ScrollCycles: the number of cycles is rounded up.
ScrollCyclesRoundedUp(max_results) ==
  (max_results + ScrollDivisor - 1) \div ScrollDivisor

\* range(max_results // 10)
ScrollCycles(max_results) == max_results \div ScrollDivisor

Names(f) == {f.leads[k].name : k \in 1..Len(f.leads)}

\* Mutant of Uuid4: the identifier issued last is issued again.
Uuid4Repeated == IF issued = 0 THEN 1 ELSE issued

\* uuid.uuid4(): a value no earlier call returned.
Uuid4 == issued + 1

\* Mutant of Put: storing a batch evicts the others.
PutEvicting(storage, id, leads) == [k \in {id} |-> leads]

\* leads_storage[scrape_id] = leads
Put(storage, id, leads) ==
  [k \in DOMAIN storage \cup {id} |-> IF k = id THEN leads ELSE storage[k]]

\* Mutant of Del: deleting a batch clears the storage.
DelAll(storage, id) == [k \in {} |-> << >>]

\* del leads_storage[scrape_id]
Del(storage, id) == [k \in DOMAIN storage \ {id} |-> storage[k]]

\* raise HTTPException(status_code=..., detail=...)
HTTPException(status_code, detail) ==
  [type |-> "HTTPException", status_code |-> status_code, detail |-> detail]

\* An exception that is no HTTPException, raised by a collaborator.
Error(type) == [type |-> type]

\* Mutant of Caught: the handler's own HTTPExceptions pass through.
CaughtUnlessHTTP(prefix, e) ==
  IF e.type = "HTTPException" THEN e ELSE HTTPException(500, <<prefix, e>>)

\* except Exception as e: raise HTTPException(status_code=500,
\* detail=f"... failed: {str(e)}").  HTTPException is an Exception, so the
\* handler's own HTTPExceptions are caught as well.
Caught(prefix, e) == HTTPException(500, <<prefix, e>>)

\* The error response FastAPI sends for an HTTPException leaving a handler.
ErrorResponse(op, e) ==
  [op |-> op, status |-> e.status_code, detail |-> e.detail]

\* Mutant of Total: off by one.
TotalPlusOne(leads) == Len(leads) + 1

\* len(leads): total_found of /scrape, total of GET /leads/{id}
Total(leads) == Len(leads)

\* Mutant of CapReached: the loop stops one lead late.
CapExceeded(leads, max_results) == Len(leads) > max_results

\* if len(leads) >= max_results: break
CapReached(leads, max_results) == Len(leads) >= max_results

\* Mutant of IsNewPlace: no membership check.
IsAnyPlace(name, processed_places) == TRUE

\* if lead_data and lead_data.get('name') not in processed_places
IsNewPlace(name, processed_places) == name \notin processed_places

\* leads.append(lead); processed_places.add(lead_data['name'])
Collect(f, name, phone) ==
  IF IsNewPlace(name, f.processed_places)
  THEN [f EXCEPT !.leads = Append(@, Lead(name, phone)),
                 !.processed_places = @ \cup {name}]
  ELSE f

\* Browsers: every /scrape request launches one at most.
BrowserIds == 1..env.scrapes

\* A browser no one holds any more stands for a newly launched one.
FreeBrowsers ==
  {b \in BrowserIds :
     /\ b \notin open_browsers
     /\ b # browser /\ b # page
     /\ \A c \in Clients : call[c].target # b}

Smallest(S) == CHOOSE x \in S : \A y \in S : x <= y

(* ------------------------- coroutine plumbing ------------------------- *)

\* Slot c is free to serve a new request.
Accepts(c) ==
  /\ c \in env.clients
  /\ call[c].pc = "idle"

\* The step sends response r (NoResp: none) and writes the file at path
\* (<< >>: none).
Reply(r, path) == resp' = r /\ written' = path /\ UNCHANGED env

\* The step sends response r (NoResp: none) and writes no file.
Respond(r) == Reply(r, << >>)

\* The coroutine of slot c suspends with frame f.
Suspend(c, f) ==
  /\ call' = [call EXCEPT ![c] = f]
  /\ Respond(NoResp)
  /\ UNCHANGED storage_vars

\* scrape_leads after scraper.scrape_businesses returned (result = "return")
\* or raised (result = the exception's type).
CompleteScrape(c, f, result) ==
  /\ call' = [call EXCEPT ![c] = IdleFrame]
  /\ IF result = "return"
     THEN /\ leads_storage' = Put(leads_storage, Uuid4, f.leads)
          /\ issued' = issued + 1
          /\ Respond([op |-> "scrape", status |-> 200,
                      scrape_id |-> Uuid4, leads |-> f.leads,
                      total_found |-> Total(f.leads)])
     ELSE /\ Respond(ErrorResponse("scrape",
                                   Caught("Scraping failed", Error(result))))
          /\ UNCHANGED storage_vars

\* scrape_businesses leaves its try block: finally: await
\* self._close_browser(), which suspends only when a browser is set.
FinallyClose(c, f, result) ==
  /\ IF browser # None
     THEN Suspend(c, [f EXCEPT !.pc = "closing", !.target = browser,
                               !.result = result])
     ELSE CompleteScrape(c, f, result)
  /\ UNCHANGED scraper_vars

\* await self.page.<operation>(...) inside the try block: the operation is
\* started on the page self.page names now; None has no such attribute.
PageOp(c, f, pc) ==
  IF page = None
  THEN FinallyClose(c, f, "AttributeError")
  ELSE /\ Suspend(c, [f EXCEPT !.pc = pc, !.target = page])
       /\ UNCHANGED scraper_vars

\* The scroll loop after a cycle's elements: break, next cycle or return.
EndCycle(c, f) ==
  IF CapReached(f.leads, f.max_results)
     \/ f.i + 1 >= ScrollCycles(f.max_results)
  THEN FinallyClose(c, f, "return")
  ELSE /\ Suspend(c, [f EXCEPT !.pc = "scroll", !.i = @ + 1,
                               !.business_elements = 0, !.element = 0,
                               !.target = page])
       /\ UNCHANGED scraper_vars

\* for element in business_elements: the loop head for element f.element.
NextElement(c, f) ==
  IF f.element <= f.business_elements /\ ~CapReached(f.leads, f.max_results)
  THEN /\ Suspend(c, [f EXCEPT !.pc = "extract"])
       /\ UNCHANGED scraper_vars
  ELSE EndCycle(c, f)

(* ------------------------------ POST /scrape -------------------------- *)

\* scrape_leads up to its first suspension: scrape_businesses calls
\* _init_browser, which launches a browser only if self.browser is unset.
scrape_leads(c) ==
  /\ Accepts(c)
  /\ started < env.scrapes
  /\ started' = started + 1
  /\ \E max_results \in env.max_results \cap (MinResults..MaxResultsLimit) :
       LET f == [IdleFrame EXCEPT !.op = "scrape",
                                  !.max_results = max_results]
       IN  IF browser = None
           THEN /\ Suspend(c, [f EXCEPT !.pc = "launch"])
                /\ UNCHANGED scraper_vars
           ELSE PageOp(c, f, "goto")

\* _init_browser: async_playwright().start() and chromium.launch() are done;
\* self.browser is set and new_page() is started on it.  An exception here
\* is raised before the try block of scrape_businesses.
init_browser_launch(c) ==
  LET f == call[c] IN
  /\ f.pc = "launch"
  /\ \/ /\ FreeBrowsers # {}
        /\ LET b == Smallest(FreeBrowsers) IN
           /\ open_browsers' = open_browsers \cup {b}
           /\ browser' = b
           /\ Suspend(c, [f EXCEPT !.pc = "new_page", !.target = b])
        /\ UNCHANGED <<page, open_pages>>
     \/ /\ CompleteScrape(c, f, "Error")
        /\ UNCHANGED scraper_vars
  /\ UNCHANGED started

\* _init_browser: new_page() is done; self.page is set and
\* set_user_agent() is started on it.
init_browser_new_page(c) ==
  LET f == call[c] IN
  /\ f.pc = "new_page"
  /\ \/ /\ f.target \in open_browsers
        /\ open_pages' = open_pages \cup {f.target}
        /\ page' = f.target
        /\ Suspend(c, [f EXCEPT !.pc = "set_user_agent"])
        /\ UNCHANGED <<browser, open_browsers>>
     \/ /\ CompleteScrape(c, f, "Error")
        /\ UNCHANGED scraper_vars
  /\ UNCHANGED started

\* _init_browser: set_user_agent() is done and _init_browser returns;
\* scrape_businesses enters its try block and starts page.goto().
init_browser_set_user_agent(c) ==
  LET f == call[c] IN
  /\ f.pc = "set_user_agent"
  /\ \/ /\ f.target \in open_pages
        /\ PageOp(c, f, "goto")
     \/ /\ CompleteScrape(c, f, "Error")
        /\ UNCHANGED scraper_vars
  /\ UNCHANGED started

\* Mutant of scrape_goto: goto() succeeds on a page that was closed.
scrape_goto_closed_page(c) ==
  LET f == call[c] IN
  /\ f.pc = "goto"
  /\ \/ /\ Suspend(c, [f EXCEPT !.pc = "wait"])
        /\ UNCHANGED scraper_vars
     \/ FinallyClose(c, f, "Error")
  /\ UNCHANGED started

\* page.goto() and the sleep after it are done; wait_for_selector() starts.
scrape_goto(c) ==
  LET f == call[c] IN
  /\ f.pc = "goto"
  /\ \/ /\ f.target \in open_pages
        /\ PageOp(c, f, "wait")
     \/ FinallyClose(c, f, "Error")
  /\ UNCHANGED started

\* wait_for_selector() is done: leads = [], processed_places = set(), and
\* the scroll loop starts (or is empty).
scrape_wait(c) ==
  LET f == call[c] IN
  /\ f.pc = "wait"
  /\ \/ /\ f.target \in open_pages
        /\ IF ScrollCycles(f.max_results) = 0
           THEN FinallyClose(c, f, "return")
           ELSE /\ Suspend(c, [f EXCEPT !.pc = "scroll", !.i = 0,
                                        !.target = page])
                /\ UNCHANGED scraper_vars
     \/ FinallyClose(c, f, "Error")
  /\ UNCHANGED started

\* _scroll_results and the sleep after it are done: the scroll worked, or
\* its exception was swallowed and logged; query_selector_all() starts.
scroll_results(c) ==
  LET f == call[c] IN
  /\ f.pc = "scroll"
  /\ \E warning \in (IF f.target \in open_pages THEN {"none"} ELSE {})
                     \cup {"Scroll error"} :
       PageOp(c, [f EXCEPT !.warning = warning], "query")
  /\ UNCHANGED started

\* query_selector_all() is done: business_elements holds handles of the
\* page it ran on, and the element loop starts.
scrape_query(c) ==
  LET f == call[c] IN
  /\ f.pc = "query"
  /\ \/ /\ f.target \in open_pages
        /\ \E n \in 0..env.elements :
             NextElement(c, [f EXCEPT !.business_elements = n, !.element = 1,
                                      !.warning = "none"])
     \/ FinallyClose(c, f, "Error")
  /\ UNCHANGED started

\* _extract_business_data up to the click: None when the name is missing
\* or when a read failed, which is logged; else the name is kept and
\* element.click() starts.
\* Names are numbered in the order in which the page first shows them.
extract_business_data(c) ==
  LET f == call[c] IN
  /\ f.pc = "extract"
  /\ \/ \E warning \in (IF f.target \in open_pages THEN {"none"} ELSE {})
                        \cup {"Error extracting business data"} :
          NextElement(c, [f EXCEPT !.element = @ + 1, !.warning = warning])
     \/ /\ f.target \in open_pages
        /\ \E name \in 1..(f.shown + 1) :
             /\ Suspend(c, [f EXCEPT !.pc = "details", !.lead_data = name,
                                     !.shown = IF name > @ THEN name ELSE @,
                                     !.warning = "none"])
             /\ UNCHANGED scraper_vars
  /\ UNCHANGED started

\* Mutant of extract_details: a failure after the click is not swallowed.
extract_details_aborting(c) ==
  LET f == call[c] IN
  /\ f.pc = "details"
  /\ \/ /\ f.target \in open_pages /\ page \in open_pages
        /\ \E phone \in {None} \cup env.phones :
             NextElement(c, [Collect(f, f.lead_data, phone)
                               EXCEPT !.element = @ + 1, !.lead_data = None,
                                      !.warning = "none"])
     \/ FinallyClose(c, f, "Error")
  /\ UNCHANGED started

\* _extract_business_data from the click on: a failure is swallowed and
\* logged, and leaves unset what was not read before it; the lead is
\* collected unless its name is known.
extract_details(c) ==
  LET f == call[c] IN
  /\ f.pc = "details"
  /\ LET alive == f.target \in open_pages /\ page \in open_pages IN
     \E phone \in {None} \cup (IF alive THEN env.phones ELSE {}),
        warning \in (IF alive THEN {"none"} ELSE {})
                    \cup {"Error extracting detailed info"} :
       NextElement(c, [Collect(f, f.lead_data, phone)
                         EXCEPT !.element = @ + 1, !.lead_data = None,
                                !.warning = warning])
  /\ UNCHANGED started

\* _close_browser: browser.close() is done; self.browser and self.page are
\* reset and scrape_businesses returns or re-raises to scrape_leads.
close_browser(c) ==
  LET f == call[c] IN
  /\ f.pc = "closing"
  /\ open_browsers' = open_browsers \ {f.target}
  /\ open_pages' = open_pages \ {f.target}
  /\ browser' = None
  /\ page' = None
  /\ CompleteScrape(c, f, f.result)
  /\ UNCHANGED started

(* ------------------------------ POST /enrich -------------------------- *)

ScrapeIds == 1..env.scrapes

\* enricher.enrich_leads(leads, api_key): a lookup per lead that returns
\* an email or none.
HunterEnrich(leads) ==
  {[k \in 1..Len(leads) |-> [leads[k] EXCEPT !.email = emails[k]]] :
     emails \in [1..Len(leads) -> env.emails \cup {None}]}

\* Mutant of EnrichmentCount: every returned lead is counted.
EnrichmentCountAll(enriched_leads) == Len(enriched_leads)

\* len([lead for lead in enriched_leads if lead.email])
EnrichmentCount(enriched_leads) ==
  Cardinality({k \in 1..Len(enriched_leads) : enriched_leads[k].email # None})

\* enrich_leads up to the await of the enricher.
enrich_leads(c, scrape_id) ==
  /\ Accepts(c)
  /\ IF scrape_id \notin DOMAIN leads_storage
       THEN /\ Respond(ErrorResponse("enrich",
                         Caught("Enrichment failed",
                                HTTPException(404, "Scrape ID not found"))))
            /\ UNCHANGED <<call, storage_vars>>
       ELSE Suspend(c, [IdleFrame EXCEPT !.op = "enrich", !.pc = "enrich",
                                         !.scrape_id = scrape_id,
                                         !.leads = leads_storage[scrape_id]])
  /\ UNCHANGED scraper_vars
  /\ UNCHANGED started

\* enrich_leads after the enricher returned or raised.
enrich_leads_done(c) ==
  LET f == call[c] IN
  /\ f.pc = "enrich"
  /\ call' = [call EXCEPT ![c] = IdleFrame]
  /\ \/ \E enriched_leads \in HunterEnrich(f.leads) :
          /\ leads_storage' = Put(leads_storage, f.scrape_id, enriched_leads)
          /\ Respond([op |-> "enrich", status |-> 200,
                      scrape_id |-> f.scrape_id,
                      enriched_leads |-> enriched_leads,
                      enrichment_count |-> EnrichmentCount(enriched_leads)])
     \/ /\ Respond(ErrorResponse("enrich",
                     Caught("Enrichment failed", Error("Error"))))
        /\ UNCHANGED leads_storage
  /\ UNCHANGED <<issued, scraper_vars>>
  /\ UNCHANGED started

(* ------------------------------ POST /export -------------------------- *)

\* ExportRequest.format: ExportFormat
ExportFormats == {"csv", "sheets"}

\* ExportRequest.filename, a name as its parts, and ExportRequest.sheets_url
\* (an unset or empty filename is << >>, an unset sheets_url is "None")
Filenames == {<< >>, <<"my_leads">>, <<"my_leads", ".csv">>}
SheetsUrls == {"None", "", "https://docs.google.com/spreadsheets/d/1"}

\* if not filename: leads_<timestamp>.csv; if not filename.endswith('.csv'):
\* filename += '.csv'; os.path.join(self.export_dir, filename)
CsvPath(filename) ==
  LET name == IF filename = << >> THEN <<"leads_", "timestamp", ".csv">>
              ELSE IF filename[Len(filename)] = ".csv" THEN filename
              ELSE Append(filename, ".csv")
  IN  <<"exports">> \o name

\* export_to_csv: the path written, or the exception of a failed write.
export_to_csv(filename, io_ok) ==
  IF io_ok THEN [ok |-> TRUE, path |-> CsvPath(filename)]
  ELSE [ok |-> FALSE, exc |-> Error("OSError"), path |-> << >>]

\* csv_filename = f"leads_for_sheets_{timestamp}.csv"
SheetsCsvFilename == <<"leads_for_sheets_", "timestamp", ".csv">>

\* Mutant of export_to_sheets: it reports success whatever happened.
export_to_sheets_always_true(io_ok) ==
  [success |-> TRUE, path |-> export_to_csv(SheetsCsvFilename, io_ok).path]

\* export_to_sheets: writes leads_for_sheets_<timestamp>.csv through
\* export_to_csv, returns True, and turns an exception into False.
export_to_sheets(io_ok) ==
  LET r == export_to_csv(SheetsCsvFilename, io_ok) IN
  [success |-> r.ok, path |-> r.path]

\* The requests ExportRequest admits: filename is read for csv only,
\* sheets_url for sheets only.
ExportRequests ==
  {q \in [scrape_id : ScrapeIds, format : ExportFormats,
          filename : Filenames, sheets_url : SheetsUrls] :
     IF q.format = "csv" THEN q.sheets_url = "None" ELSE q.filename = << >>}

\* The body of export_leads' try block: a response or a raised exception,
\* and the file written.
ExportBody(request, io_ok) ==
  IF request.scrape_id \notin DOMAIN leads_storage
  THEN [raised |-> HTTPException(404, "Scrape ID not found"),
        written |-> << >>]
  ELSE IF request.format = "csv"
  THEN LET r == export_to_csv(request.filename, io_ok) IN
       IF r.ok
       THEN [sent |-> [op |-> "export", status |-> 200,
                       format |-> request.format, file_path |-> r.path],
             written |-> r.path]
       ELSE [raised |-> r.exc, written |-> r.path]
  ELSE IF request.sheets_url = "None" \/ request.sheets_url = ""
  THEN [raised |-> HTTPException(400, "Google Sheets URL required"),
        written |-> << >>]
  ELSE LET r == export_to_sheets(io_ok) IN
       IF r.success
       THEN [sent |-> [op |-> "export", status |-> 200,
                       format |-> request.format,
                       message |-> "Successfully exported to Google Sheets"],
             written |-> r.path]
       ELSE [raised |-> HTTPException(500,
                                      "Failed to export to Google Sheets"),
             written |-> r.path]

\* Mutant of export_leads: the export consumes the stored batches.
export_leads_consuming(c) ==
  /\ Accepts(c)
  /\ \E r \in {ExportBody(request, io_ok) :
                 request \in ExportRequests, io_ok \in BOOLEAN} :
       Reply(IF "sent" \in DOMAIN r THEN r.sent
             ELSE ErrorResponse("export", Caught("Export failed", r.raised)),
             r.written)
  /\ leads_storage' = [k \in {} |-> << >>]
  /\ UNCHANGED <<call, issued, scraper_vars, started>>

\* export_leads: it awaits nothing and runs in one step.
export_leads(c) ==
  /\ Accepts(c)
  /\ \E r \in {ExportBody(request, io_ok) :
                 request \in ExportRequests, io_ok \in BOOLEAN} :
       Reply(IF "sent" \in DOMAIN r THEN r.sent
             ELSE ErrorResponse("export", Caught("Export failed", r.raised)),
             r.written)
  /\ UNCHANGED <<call, storage_vars, scraper_vars>>
  /\ UNCHANGED started

(* ---------------------- GET and DELETE /leads/{id} -------------------- *)

get_leads(c, scrape_id) ==
  /\ Accepts(c)
  /\ Respond(IF scrape_id \notin DOMAIN leads_storage
             THEN ErrorResponse("get",
                                HTTPException(404, "Scrape ID not found"))
             ELSE [op |-> "get", status |-> 200,
                   scrape_id |-> scrape_id,
                   leads |-> leads_storage[scrape_id],
                   total |-> Total(leads_storage[scrape_id])])
  /\ UNCHANGED <<call, storage_vars, scraper_vars>>
  /\ UNCHANGED started

\* (the response records the path's scrape_id beside the message)
delete_leads(c, scrape_id) ==
  /\ Accepts(c)
  /\ IF scrape_id \notin DOMAIN leads_storage
       THEN /\ Respond(ErrorResponse("delete",
                         HTTPException(404, "Scrape ID not found")))
            /\ UNCHANGED leads_storage
       ELSE /\ leads_storage' = Del(leads_storage, scrape_id)
            /\ Respond([op |-> "delete", status |-> 200,
                        scrape_id |-> scrape_id,
                        message |-> "Leads deleted successfully"])
  /\ UNCHANGED <<call, issued, scraper_vars>>
  /\ UNCHANGED started

health_check(c) ==
  /\ Accepts(c)
  /\ Respond([op |-> "health", status |-> 200])
  /\ UNCHANGED <<call, storage_vars, scraper_vars>>
  /\ UNCHANGED started

(* --------------------------- specifications --------------------------- *)

Next ==
  \E c \in Clients :
    \/ scrape_leads(c)
    \/ init_browser_launch(c)
    \/ init_browser_new_page(c)
    \/ init_browser_set_user_agent(c)
    \/ scrape_goto(c)
    \/ scrape_wait(c)
    \/ scroll_results(c)
    \/ scrape_query(c)
    \/ extract_business_data(c)
    \/ extract_details(c)
    \/ close_browser(c)
    \/ \E scrape_id \in ScrapeIds : enrich_leads(c, scrape_id)
    \/ enrich_leads_done(c)
    \/ export_leads(c)
    \/ \E scrape_id \in ScrapeIds : get_leads(c, scrape_id)
    \/ \E scrape_id \in ScrapeIds : delete_leads(c, scrape_id)
    \/ health_check(c)

\* Concurrent requests of two clients.
Spec == Init /\ [][Next]_vars

\* Requests of one client, one after the other.
SpecSeq == InitSeq /\ [][Next]_vars

\* The steps that complete an operation scrape_businesses awaits.
ScrapeStep ==
  \E c \in Clients :
    \/ init_browser_launch(c)
    \/ init_browser_new_page(c)
    \/ init_browser_set_user_agent(c)
    \/ scrape_goto(c)
    \/ scrape_wait(c)
    \/ scroll_results(c)
    \/ scrape_query(c)
    \/ extract_business_data(c)
    \/ extract_details(c)
    \/ close_browser(c)

\* Sequential use in which every awaited page operation returns or raises
\* in the end.
SpecSeqFair == InitSeq /\ [][Next]_vars /\ WF_vars(ScrapeStep)

\* Sequential requests with an enricher that finds emails.
SpecEnrich == InitEnrich /\ [][Next]_vars

(* ------------------------------- claims ------------------------------- *)

PostHandlers == {"scrape", "enrich", "export"}

\* C1: POST /scrape, /enrich and /export answer every exception raised in
\* the handler body, their own HTTPExceptions for a missing scrape_id or a
\* missing sheets_url included, with status 500 and the handler's generic
\* "... failed" detail; they send no other error status.
C1_PostErrorsAre500 ==
  resp.op \in PostHandlers /\ resp.status # 200 =>
    /\ resp.status = 500
    /\ resp.detail[1] \in {"Scraping failed", "Enrichment failed",
                           "Export failed"}

\* C1 witness: /export answered 500 for the 400 it raised itself for a
\* missing sheets_url.
C1_Witness ==
  /\ resp.op = "export"
  /\ resp.status = 500
  /\ resp.detail[2] = HTTPException(400, "Google Sheets URL required")

\* C2 as claimed: /enrich and /export answer a scrape_id that is no key of
\* leads_storage with status 404 and detail "Scrape ID not found", and leave
\* leads_storage unchanged.
C2_MissingIdIs404 ==
  [][\A c \in Clients, scrape_id \in ScrapeIds :
       \/ enrich_leads(c, scrape_id) /\ scrape_id \notin DOMAIN leads_storage
       \/ export_leads(c) /\ DOMAIN leads_storage = {}
       => /\ resp'.status = 404
          /\ resp'.detail = "Scrape ID not found"
          /\ leads_storage' = leads_storage]_vars

\* C3: GET and DELETE /leads/{id} answer 404 exactly when id is no key of
\* leads_storage, and then leave leads_storage unchanged; GET of a stored id
\* returns the stored batch with total equal to its length and never
\* changes leads_storage.
C3_GetDelete404 ==
  [][\A c \in Clients, scrape_id \in ScrapeIds :
       /\ get_leads(c, scrape_id) =>
            /\ resp'.status = 404 <=> scrape_id \notin DOMAIN leads_storage
            /\ leads_storage' = leads_storage
            /\ scrape_id \in DOMAIN leads_storage =>
                 /\ resp'.status = 200
                 /\ resp'.leads = leads_storage[scrape_id]
                 /\ resp'.total = Len(leads_storage[scrape_id])
       /\ delete_leads(c, scrape_id) =>
            /\ resp'.status = 404 <=> scrape_id \notin DOMAIN leads_storage
            /\ resp'.status = 404 => leads_storage' = leads_storage]_vars

\* C3 witness: GET returned a stored batch that holds a lead.
C3_Witness ==
  /\ resp.op = "get"
  /\ resp.status = 200
  /\ resp.total >= 1
  /\ resp.scrape_id \in DOMAIN leads_storage

Scraping(c) == call[c].op = "scrape"

\* C4: the list scrape_businesses collects never has more than max_results
\* leads, the list it returns included; a successful /scrape reports
\* total_found equal to the length of the leads it returns, and that list
\* is the one stored under the returned scrape_id.
C4_AtMostMaxResults ==
  /\ [](/\ \A c \in Clients :
             Scraping(c) => Len(call[c].leads) <= call[c].max_results
        /\ resp.op = "scrape" /\ resp.status = 200 =>
             /\ resp.total_found = Len(resp.leads)
             /\ leads_storage[resp.scrape_id] = resp.leads)
  /\ [][\A c \in Clients :
          /\ Scraping(c)
          /\ call'[c].pc = "idle"
          /\ resp'.status = 200
          => /\ resp'.leads = call[c].leads
             /\ Len(resp'.leads) <= call[c].max_results]_vars

\* C4 witness: scrape_businesses returns max_results leads having left
\* result elements of the last cycle unprocessed.
C4_Witness ==
  \E c \in Clients :
    /\ Scraping(c)
    /\ call[c].pc = "closing"
    /\ call[c].result = "return"
    /\ Len(call[c].leads) = call[c].max_results
    /\ call[c].element <= call[c].business_elements

\* C5: the leads scrape_businesses has collected never hold two leads of
\* the same name, however often the scroll cycles present an element again,
\* and processed_places is exactly the set of the names of those leads.
C5_NoDuplicateNames ==
  \A c \in Clients :
    Scraping(c) =>
      /\ \A j, k \in 1..Len(call[c].leads) :
           call[c].leads[j].name = call[c].leads[k].name => j = k
      /\ call[c].processed_places = Names(call[c])

\* C5 witness: the second scroll cycle has extracted a name that is in
\* processed_places already, with several leads collected.
C5_Witness ==
  \E c \in Clients :
    /\ Scraping(c)
    /\ call[c].pc = "details"
    /\ call[c].i = 1
    /\ call[c].lead_data \in call[c].processed_places
    /\ Len(call[c].leads) >= 2

\* C6: a successful /scrape adds exactly one key to leads_storage, an
\* identifier that was no key before, mapped to the leads it returns, and
\* leaves every other batch as it was; a failed /scrape leaves
\* leads_storage unchanged.
C6_ScrapeAddsOneKey ==
  [][resp'.op = "scrape" =>
       IF resp'.status = 200
       THEN /\ resp'.scrape_id \notin DOMAIN leads_storage
            /\ DOMAIN leads_storage' =
                 DOMAIN leads_storage \cup {resp'.scrape_id}
            /\ leads_storage'[resp'.scrape_id] = resp'.leads
            /\ \A k \in DOMAIN leads_storage :
                 leads_storage'[k] = leads_storage[k]
       ELSE leads_storage' = leads_storage]_vars

\* C6 witness: a successful /scrape has stored a batch of one lead next to
\* an earlier batch of one lead.
C6_Witness ==
  /\ resp.op = "scrape"
  /\ resp.status = 200
  /\ Len(resp.leads) = 1
  /\ \E k \in DOMAIN leads_storage :
       k # resp.scrape_id /\ Len(leads_storage[k]) = 1

\* C7: a key of leads_storage stays a key through every step that is not a
\* successful DELETE /leads/{id} of that key, and no /scrape is refused or
\* evicts a batch for lack of room: it always adds to the number of
\* batches.
C7_NoEviction ==
  [][/\ \A k \in DOMAIN leads_storage :
          k \notin DOMAIN leads_storage' =>
            /\ resp'.op = "delete"
            /\ resp'.status = 200
            /\ resp'.scrape_id = k
     /\ resp'.op = "scrape" /\ resp'.status = 200 =>
          Cardinality(DOMAIN leads_storage') =
            Cardinality(DOMAIN leads_storage) + 1]_vars

\* C7 witness: every identifier has been issued, one batch was deleted on
\* request and the other is still stored.
C7_Witness ==
  /\ resp.op = "delete"
  /\ resp.status = 200
  /\ issued = env.scrapes
  /\ resp.scrape_id \notin DOMAIN leads_storage
  /\ DOMAIN leads_storage # {}

\* C8 as claimed: at every moment at most one browser and at most one page
\* launched by the shared scraper is open, /scrape requests in flight
\* together included.
C8_OneBrowserOpen ==
  /\ Cardinality(open_browsers) <= 1
  /\ Cardinality(open_pages) <= 1

InPageOp(c) ==
  /\ Scraping(c)
  /\ call[c].pc \in {"goto", "wait", "query"}
  /\ call[c].target # None
  /\ call[c].target \notin open_pages

Failed(f) ==
  \/ f.pc = "closing" /\ f.result # "return"
  \/ f.pc = "idle"

\* C9: two overlapping /scrape requests race on the shared browser and
\* page: one request's _close_browser closes the page and sets browser and
\* page to None while the other awaits an operation on that page, and the
\* other request then fails: its scrape_businesses raises and it is
\* answered 500.
C9_ClosedPageFails ==
  [][\A c \in Clients :
       InPageOp(c) /\ call'[c] # call[c] =>
         /\ Failed(call'[c])
         /\ call'[c].pc = "idle" =>
              resp'.op = "scrape" /\ resp'.status = 500]_vars

\* C9 witness: a /scrape has just completed, its _close_browser left
\* browser and page None, and another /scrape is awaiting an operation on
\* the page that was closed.
C9_Witness ==
  /\ resp.op = "scrape"
  /\ browser = None
  /\ page = None
  /\ \E c \in Clients : InPageOp(c)

\* C10: a successful DELETE /leads/{id} removes exactly the key id from
\* leads_storage and leaves every other batch as it was; a DELETE of the
\* same id in the very next step is answered 404.
C10_DeleteRemovesOneKey ==
  [][\A c \in Clients, scrape_id \in ScrapeIds :
       delete_leads(c, scrape_id) =>
         /\ resp'.status = 200 =>
              /\ DOMAIN leads_storage' = DOMAIN leads_storage \ {scrape_id}
              /\ \A k \in DOMAIN leads_storage' :
                   leads_storage'[k] = leads_storage[k]
         /\ resp.op = "delete" /\ resp.status = 200
            /\ resp.scrape_id = scrape_id => resp'.status = 404]_vars

\* C10 witness: every identifier was issued and stored, one batch is still
\* stored, and a DELETE of the other, deleted before, is answered 404.
C10_Witness ==
  /\ resp.op = "delete"
  /\ resp.status = 404
  /\ issued = env.scrapes
  /\ Cardinality(DOMAIN leads_storage) = env.scrapes - 1
  /\ \A k \in DOMAIN leads_storage : Len(leads_storage[k]) = 1

HasEmail(lead) == lead.email # None

\* C11: a successful /enrich of a stored scrape_id replaces
\* leads_storage[scrape_id] with the list the enricher returned and changes
\* no other batch; its enrichment_count is the number of returned leads
\* that have an email, so never more than the number of returned leads; if
\* the enricher raises, leads_storage keeps its previous value.
C11_EnrichReplacesBatch ==
  [][\A c \in Clients :
       enrich_leads_done(c) =>
         IF resp'.status = 200
         THEN /\ resp'.scrape_id = call[c].scrape_id
              /\ resp'.enriched_leads \in HunterEnrich(call[c].leads)
              /\ DOMAIN leads_storage' =
                   DOMAIN leads_storage \cup {resp'.scrape_id}
              /\ leads_storage'[resp'.scrape_id] = resp'.enriched_leads
              /\ \A k \in DOMAIN leads_storage \ {resp'.scrape_id} :
                   leads_storage'[k] = leads_storage[k]
              /\ resp'.enrichment_count =
                   Len(SelectSeq(resp'.enriched_leads, HasEmail))
              /\ resp'.enrichment_count <= Len(resp'.enriched_leads)
         ELSE leads_storage' = leads_storage]_vars

\* C11 witness: /enrich returned two leads, one with an email and one
\* without, while another batch that holds a lead is stored.
C11_Witness ==
  /\ resp.op = "enrich"
  /\ resp.status = 200
  /\ Len(resp.enriched_leads) = 2
  /\ resp.enrichment_count = 1
  /\ \E k \in DOMAIN leads_storage :
       k # resp.scrape_id /\ Len(leads_storage[k]) >= 1

\* C12: /export never modifies leads_storage, for the csv and for the
\* sheets format, whether the export succeeds or fails.
C12_ExportKeepsStorage ==
  [][resp'.op = "export" =>
       /\ leads_storage' = leads_storage
       /\ \A c \in Clients : export_leads(c) => issued' = issued]_vars

\* C12 witness: a csv export of a stored batch that holds a lead has
\* written its file.
C12_Witness ==
  /\ resp.op = "export"
  /\ resp.status = 200
  /\ resp.format = "csv"
  /\ \E k \in DOMAIN leads_storage : Len(leads_storage[k]) >= 1

InCycle(f) == f.pc \in {"scroll", "query", "extract", "details"}

\* C13: scrape_businesses runs at most floor(max_results / 10) scroll
\* cycles, and starts no further element or cycle once max_results leads
\* are collected; for max_results below 10 it runs no cycle and returns an
\* empty list; and once started it finishes, provided that every page
\* operation it awaits returns or raises.
C13_BoundedCycles ==
  /\ [](\A c \in Clients :
          Scraping(c) =>
            LET f == call[c] IN
            /\ InCycle(f) => (f.i + 1) * ScrollDivisor <= f.max_results
            /\ InCycle(f) /\ (f.i > 0 \/ f.pc \in {"extract", "details"})
                 => Len(f.leads) < f.max_results
            /\ f.max_results < ScrollDivisor =>
                 ~InCycle(f) /\ f.leads = << >>)
  /\ [][\A c \in Clients :
          Scraping(c) /\ InCycle(call'[c]) =>
            call'[c].i \in {call[c].i, call[c].i + 1}]_vars
  /\ \A c \in Clients : Scraping(c) ~> ~Scraping(c)

\* C13 witness: with max_results 20 both scroll cycles ran and
\* scrape_businesses returns with fewer than 20 leads.
C13_Witness ==
  \E c \in Clients :
    /\ Scraping(c)
    /\ call[c].pc = "closing"
    /\ call[c].result = "return"
    /\ call[c].i + 1 = ScrollCycles(call[c].max_results)
    /\ call[c].i = 1
    /\ Len(call[c].leads) < call[c].max_results

\* C14 as claimed: in sequential use, whenever no call of
\* scrape_businesses is in progress, whether the last one returned or
\* raised, self.browser and self.page are None and no browser is open.
C14_NoBrowserAfterCall ==
  (\A c \in Clients : ~Scraping(c)) =>
    /\ browser = None
    /\ page = None
    /\ open_browsers = {}

NotAborted(c) ==
  /\ call'[c].pc = "closing" => call'[c].result = "return"
  /\ call'[c].pc = "idle" => resp'.status = 200

LeadsAfter(c) == IF call'[c].pc = "idle" THEN resp'.leads ELSE call'[c].leads

\* C15: a failure while scrolling or while extracting one result element
\* never aborts scrape_businesses: after _scroll_results, failed or not,
\* the query of the elements starts; an element that yields None is
\* skipped, an element whose name was read is collected, unless the name
\* is known, also when the click for its details fails; and the loop goes
\* on with the next element.
C15_FailuresSwallowed ==
  [][\A c \in Clients :
       /\ scroll_results(c) /\ page # None => call'[c].pc = "query"
       /\ extract_business_data(c) =>
            /\ NotAborted(c)
            /\ call'[c].pc # "details" => LeadsAfter(c) = call[c].leads
            /\ call'[c].pc = "extract" =>
                 call'[c].element = call[c].element + 1
       /\ extract_details(c) =>
            /\ NotAborted(c)
            /\ \E k \in 1..Len(LeadsAfter(c)) :
                 LeadsAfter(c)[k].name = call[c].lead_data
            /\ call'[c].pc = "extract" =>
                 call'[c].element = call[c].element + 1]_vars

\* C15 witness: the click for the details of the first element failed, the
\* element was collected all the same, and the loop is at the second
\* element.
C15_Witness ==
  \E c \in Clients :
    /\ Scraping(c)
    /\ call[c].pc = "extract"
    /\ call[c].warning = "Error extracting detailed info"
    /\ call[c].element = 2
    /\ Len(call[c].leads) = 1
    /\ call[c].leads[1].phone = None

\* The answer of /export when export_to_sheets returned False: the
\* handler's own 500, wrapped by its except block.
SheetsFailed ==
  /\ resp.status = 500
  /\ resp.detail[2] = HTTPException(500, "Failed to export to Google Sheets")

\* C16: the sheets export only writes a CSV file: /export with format
\* sheets and a non-empty sheets_url reports success exactly when
\* export_to_csv wrote leads_for_sheets_<timestamp>.csv, and answers with
\* the failure of export_to_sheets, which returned False and raised
\* nothing, exactly when that file was not written.
C16_SheetsIsCsvStub ==
  resp.op = "export" =>
    /\ (resp.status = 200 /\ resp.format = "sheets")
         <=> (written = CsvPath(SheetsCsvFilename))
    /\ SheetsFailed => (written = << >>)

\* C16 witness: a sheets export reported success and the CSV file for the
\* manual import was written.
C16_Witness ==
  /\ resp.op = "export"
  /\ resp.status = 200
  /\ resp.format = "sheets"
  /\ written = <<"exports", "leads_for_sheets_", "timestamp", ".csv">>

====
